---- MODULE Spec2Model ----
(***************************************************************************)
(* Model of workspace_storage.FabricUtil (fabric_util.py): the workspace   *)
(* and tenant size calculators, the size estimator and the placeholder     *)
(* fallback, over an external directory (sempy.fabric) that may be absent, *)
(* may raise, or may return data frames of items / workspaces.             *)
(***************************************************************************)
EXTENDS Integers, Sequences, FiniteSets, TLC

VARIABLES
    FABRIC_AVAILABLE,  \* module flag: sempy.fabric could be imported
    workspace_id,      \* self.workspace_id
    tenant_id,         \* self.tenant_id
    list_workspaces,   \* what fabric.list_workspaces() does now
    list_items,        \* what fabric.list_items(workspace=id) does now, per id
    result,            \* the last calculator call: operation, argument, outcome,
                       \* and the outcome of the call before it when that was the
                       \* same call on an unchanged directory
    changed            \* the directory changed since that call

vars == <<FABRIC_AVAILABLE, workspace_id, tenant_id, list_workspaces, list_items, result, changed>>

----------------------------------------------------------------------------
(* Bounds of the model.                                                    *)

\* rows of a list_workspaces() frame
MaxWorkspaces == 2
\* rows of a list_items() frame in the aggregator specification
MaxDirItems == 1
\* rows of a list_items() frame in the item-frame specification
MaxItems == 3

----------------------------------------------------------------------------
(* Python values.                                                          *)

\* Python None, and a null cell of a string column of a data frame
None == "<None>"
\* a null cell of a numeric column (sizes are never negative)
NaN == 0 - 1
\* what a directory call does when it raises instead of returning a frame
Raises == [raises |-> TRUE]

\* truth value of an Optional[str]: None and "" are falsy
Truthy(x) == x # None /\ x # ""

\* Python's `a or b`
Or(a, b) == IF Truthy(a) THEN a ELSE b

\* row.get(key, default) on a row of a frame with the given columns
RowGet(row, columns, key, default) == IF key \in columns THEN row[key] ELSE default

\* outcomes a caller can observe
Returned(v, calls) == [kind |-> "int", value |-> v, calls |-> calls]

ValueError(calls) == [kind |-> "ValueError", calls |-> calls]

Exception(calls) == [kind |-> "Exception", calls |-> calls]

\* the trace of a calculator call: the directory invocations it makes and the
\* methods of the instance it enters, in order
CallListWorkspaces == [fn |-> "list_workspaces", workspace |-> None]

CallListItems(id) == [fn |-> "list_items", workspace |-> id]

EnterGetWorkspaces == [fn |-> "get_workspaces", workspace |-> None]

EnterGetWorkspaceTotalSize(id) == [fn |-> "get_workspace_total_size", workspace |-> id]

----------------------------------------------------------------------------
(* Data frames of items: a set of column names and a sequence of rows,     *)
(* each row a function from the columns to cells.                          *)

RECURSIVE SumSeq(_)
SumSeq(s) == IF s = <<>> THEN 0 ELSE Head(s) + SumSeq(Tail(s))

RECURSIVE SumOver(_, _)
SumOver(S, f) ==
    IF S = {} THEN 0
    ELSE LET x == CHOOSE y \in S : TRUE IN f[x] + SumOver(S \ {x}, f)

\* items_df.empty (every frame of the directory carries its identity columns,
\* so a frame is empty exactly when it has no rows)
Empty(df) == Len(df.rows) = 0

\* items_df[col]
Column(df, col) == [i \in 1..Len(df.rows) |-> df.rows[i][col]]

\* series.fillna(0)
FillNa0(series) == [i \in 1..Len(series) |-> IF series[i] = NaN THEN 0 ELSE series[i]]

\* series.value_counts(): counts of the distinct non-null values
ValueCounts(series) ==
    LET present == {series[i] : i \in 1..Len(series)} \ {None}
    IN [t \in present |-> Cardinality({i \in 1..Len(series) : series[i] = t})]

size_columns == <<"Size", "size", "SizeInBytes", "FileSizeBytes", "ContentSize">>

\* the first name of size_columns that is a column of the frame, else None
RECURSIVE FirstColumn(_, _)
FirstColumn(names, columns) ==
    IF names = <<>> THEN None
    ELSE IF Head(names) \in columns THEN Head(names)
    ELSE FirstColumn(Tail(names), columns)

size_estimates ==
    [Dataset |-> 50 * 1024 * 1024,
     Report |-> 25 * 1024 * 1024,
     Dashboard |-> 100 * 1024,
     Dataflow |-> 10 * 1024 * 1024,
     Lakehouse |-> 100 * 1024 * 1024,
     Notebook |-> 5 * 1024 * 1024,
     SemanticModel |-> 30 * 1024 * 1024,
     Datamart |-> 75 * 1024 * 1024]

\* size_estimates.get(item_type, 1024 * 1024)
EstimateOf(item_type) ==
    IF item_type \in DOMAIN size_estimates THEN size_estimates[item_type] ELSE 1024 * 1024

average_item_size == 20 * 1024 * 1024

\* each distinct type is counted once, whatever its count
EstimateWorkspaceSizeOncePerType(df) ==
    IF "Type" \in df.columns
    THEN LET type_counts == ValueCounts(Column(df, "Type"))
         IN SumOver(DOMAIN type_counts,
                    [t \in DOMAIN type_counts |-> EstimateOf(t)])
    ELSE Len(df.rows) * average_item_size

\* FabricUtil._estimate_workspace_size
EstimateWorkspaceSize(df) ==
    IF "Type" \in df.columns
    THEN LET type_counts == ValueCounts(Column(df, "Type"))
         IN SumOver(DOMAIN type_counts,
                    [t \in DOMAIN type_counts |-> EstimateOf(t) * type_counts[t]])
    ELSE Len(df.rows) * average_item_size

workspace_items ==
    << [name |-> "dataset1.pbix", size |-> 1024 * 1024 * 50],
       [name |-> "report1.pbix", size |-> 1024 * 1024 * 25],
       [name |-> "dashboard1.json", size |-> 1024 * 100],
       [name |-> "model1.bim", size |-> 1024 * 1024 * 10] >>

\* the loop stops one item short
PlaceholderSizeSkipsLast ==
    SumSeq([i \in 1..(Len(workspace_items) - 1) |-> workspace_items[i].size])

\* the placeholder loop of get_workspace_total_size
PlaceholderSize == SumSeq([i \in 1..Len(workspace_items) |-> workspace_items[i].size])

\* an empty frame is sized as the placeholder items
SizeOfFrameEmptyAsPlaceholder(df) ==
    IF ~Empty(df)
    THEN LET size_column == FirstColumn(size_columns, df.columns)
         IN IF size_column # None
            THEN SumSeq(FillNa0(Column(df, size_column)))
            ELSE EstimateWorkspaceSize(df)
    ELSE PlaceholderSize

\* a sum of 0 is taken for "no size found" and replaced by the estimate
SizeOfFrameZeroSumEstimated(df) ==
    IF ~Empty(df)
    THEN LET size_column == FirstColumn(size_columns, df.columns)
         IN IF size_column # None /\ SumSeq(FillNa0(Column(df, size_column))) # 0
            THEN SumSeq(FillNa0(Column(df, size_column)))
            ELSE EstimateWorkspaceSize(df)
    ELSE 0

\* the body of `if FABRIC_AVAILABLE: try:` once list_items has returned a frame
SizeOfFrame(df) ==
    IF ~Empty(df)
    THEN LET size_column == FirstColumn(size_columns, df.columns)
         IN IF size_column # None
            THEN SumSeq(FillNa0(Column(df, size_column)))
            ELSE EstimateWorkspaceSize(df)
    ELSE 0

\* a failure of list_items is not caught by the inner try and leaves through the
\* outer `except Exception`
GetWorkspaceTotalSizeNoFallback(self_workspace_id, arg, avail, items) ==
    LET target_workspace_id == Or(arg, self_workspace_id)
    IN IF ~Truthy(target_workspace_id)
       THEN ValueError(<<>>)
       ELSE IF avail
            THEN IF items[target_workspace_id] # Raises
                 THEN Returned(SizeOfFrame(items[target_workspace_id]),
                               <<CallListItems(target_workspace_id)>>)
                 ELSE Exception(<<CallListItems(target_workspace_id)>>)
            ELSE Returned(PlaceholderSize, <<>>)

\* the check of target_workspace_id is missing
GetWorkspaceTotalSizeNoCheck(self_workspace_id, arg, avail, items) ==
    LET target_workspace_id == Or(arg, self_workspace_id)
    IN IF Truthy(target_workspace_id) /\ avail /\ items[target_workspace_id] # Raises
       THEN Returned(SizeOfFrame(items[target_workspace_id]),
                     <<CallListItems(target_workspace_id)>>)
       ELSE Returned(PlaceholderSize,
                     IF Truthy(target_workspace_id) /\ avail
                     THEN <<CallListItems(target_workspace_id)>> ELSE <<>>)

\* FabricUtil.get_workspace_total_size(workspace_id) on an instance whose
\* default is self_workspace_id; avail is FABRIC_AVAILABLE, items is what
\* fabric.list_items does per workspace
GetWorkspaceTotalSize(self_workspace_id, arg, avail, items) ==
    LET target_workspace_id == Or(arg, self_workspace_id)
    IN IF ~Truthy(target_workspace_id)
       THEN ValueError(<<>>)
       ELSE IF avail /\ items[target_workspace_id] # Raises
            THEN Returned(SizeOfFrame(items[target_workspace_id]),
                          <<CallListItems(target_workspace_id)>>)
            ELSE Returned(PlaceholderSize,
                          IF avail THEN <<CallListItems(target_workspace_id)>> ELSE <<>>)

placeholder_workspaces ==
    << [id |-> "workspace-1", name |-> "Default Workspace"],
       [id |-> "workspace-2", name |-> "Development Workspace"] >>

\* the placeholder list holds one workspace only
GetWorkspacesOnePlaceholder(avail, workspaces) ==
    IF avail /\ workspaces # Raises
    THEN [i \in 1..Len(workspaces.rows) |->
             RowGet(workspaces.rows[i], workspaces.columns, "Id", "")]
    ELSE <<placeholder_workspaces[1].id>>

\* FabricUtil.get_workspaces(): the "id" of each workspace dictionary, in order
GetWorkspaces(avail, workspaces) ==
    IF avail /\ workspaces # Raises
    THEN [i \in 1..Len(workspaces.rows) |->
             RowGet(workspaces.rows[i], workspaces.columns, "Id", "")]
    ELSE [i \in 1..Len(placeholder_workspaces) |-> placeholder_workspaces[i].id]

\* the loop of get_tenant_total_size over the ids still to visit: an exception
\* of get_workspace_total_size leaves the loop, caught by `except Exception`
\* and raised again as a plain Exception
RECURSIVE TenantLoop(_, _, _, _, _, _)
TenantLoop(ids, total_size, calls, self_workspace_id, avail, items) ==
    IF ids = <<>> THEN Returned(total_size, calls)
    ELSE LET w == GetWorkspaceTotalSize(self_workspace_id, Head(ids), avail, items)
             entered == Append(calls, EnterGetWorkspaceTotalSize(Head(ids)))
         IN IF w.kind = "int"
            THEN TenantLoop(Tail(ids), total_size + w.value, entered \o w.calls,
                            self_workspace_id, avail, items)
            ELSE Exception(entered \o w.calls)

\* the check of target_tenant_id comes after the workspaces are summed
GetTenantTotalSizeLateCheck(self_workspace_id, self_tenant_id, arg, avail, workspaces, items) ==
    LET target_tenant_id == Or(arg, self_tenant_id)
        summed == TenantLoop(GetWorkspaces(avail, workspaces), 0,
                             IF avail THEN <<EnterGetWorkspaces, CallListWorkspaces>>
                                      ELSE <<EnterGetWorkspaces>>,
                             self_workspace_id, avail, items)
    IN IF ~Truthy(target_tenant_id) THEN ValueError(summed.calls) ELSE summed

\* the tenant identifier is handed to the directory to select the workspaces
GetTenantTotalSizePassesTenant(self_workspace_id, self_tenant_id, arg, avail, workspaces, items) ==
    LET target_tenant_id == Or(arg, self_tenant_id)
    IN IF ~Truthy(target_tenant_id)
       THEN ValueError(<<>>)
       ELSE TenantLoop(GetWorkspaces(avail, workspaces), 0,
                       IF avail
                       THEN <<EnterGetWorkspaces,
                              [fn |-> "list_workspaces", workspace |-> target_tenant_id]>>
                       ELSE <<EnterGetWorkspaces>>,
                       self_workspace_id, avail, items)

\* FabricUtil.get_tenant_total_size(tenant_id)
GetTenantTotalSize(self_workspace_id, self_tenant_id, arg, avail, workspaces, items) ==
    LET target_tenant_id == Or(arg, self_tenant_id)
    IN IF ~Truthy(target_tenant_id)
       THEN ValueError(<<>>)
       ELSE TenantLoop(GetWorkspaces(avail, workspaces), 0,
                       IF avail THEN <<EnterGetWorkspaces, CallListWorkspaces>>
                                ELSE <<EnterGetWorkspaces>>,
                       self_workspace_id, avail, items)

----------------------------------------------------------------------------
(* The inputs: configurations, arguments and directory behaviours.         *)

WorkspaceIds == {"workspace-1", "workspace-2"}

\* FabricUtil(workspace_id=..., tenant_id=...)
ConfiguredWorkspaceIds == {None, "workspace-1"}

ConfiguredTenantIds == {None, "tenant-1"}

\* the argument of a calculator call
WorkspaceArgs == {None, "", "workspace-2"}

TenantArgs == {None, "", "tenant-2"}

SeqsUpTo(S, n) == UNION {[1..k -> S] : k \in 0..n}

\* the rows a frame with these columns can have
RowsOf(columns, typeCells, sizeCells) ==
    {[c \in columns |-> IF c = "Type" THEN t ELSE s] : t \in typeCells, s \in sizeCells}

Frames(columnSets, maxRows, typeCells, sizeCells) ==
    UNION {{[columns |-> cs, rows |-> rs] :
                rs \in SeqsUpTo(RowsOf(cs, typeCells, sizeCells), maxRows)} :
           cs \in columnSets}

\* list_workspaces() frames: with or without the "Id" column
WorkspaceFrames ==
    UNION {{[columns |-> cs, rows |-> rs] :
                rs \in SeqsUpTo([cs -> WorkspaceIds], MaxWorkspaces)} :
           cs \in {{}, {"Id"}}}

\* list_items() frames of the aggregator specification
DirFrames == Frames({{}, {"Type"}, {"Size"}}, MaxDirItems, {"Report"}, {NaN, 4})

\* list_items() frames of the item-frame specification ("Bytes" is a column
\* that size_columns does not name)
ItemFrames ==
    Frames({{}, {"Type"}, {"Size"}, {"Type", "Size"}, {"SizeInBytes"}, {"Bytes"}}, MaxItems,
           {None, "Report", "Dashboard", "Widget"}, {NaN, 4})

----------------------------------------------------------------------------
(* The state machine: an instance is constructed, then calculator calls    *)
(* and directory failures interleave.                                      *)

NoCall == [op |-> "none"]

TypeOK ==
    /\ FABRIC_AVAILABLE \in BOOLEAN
    /\ workspace_id \in ConfiguredWorkspaceIds
    /\ tenant_id \in ConfiguredTenantIds
    /\ changed \in BOOLEAN
    /\ result.op \in {"none", "get_workspace_total_size", "get_tenant_total_size"}

\* FabricUtil.__init__; without sempy.fabric every use of `fabric` raises
Init ==
    /\ FABRIC_AVAILABLE \in BOOLEAN
    /\ workspace_id \in ConfiguredWorkspaceIds
    /\ tenant_id \in ConfiguredTenantIds
    /\ list_workspaces \in IF FABRIC_AVAILABLE THEN WorkspaceFrames \cup {Raises} ELSE {Raises}
    /\ list_items \in IF FABRIC_AVAILABLE
                      THEN [WorkspaceIds -> DirFrames \cup {Raises}]
                      ELSE {[w \in WorkspaceIds |-> Raises]}
    /\ result = NoCall
    /\ changed = FALSE

\* the record of a call: `again` says the previous call had the same operation
\* and argument and the directory has not changed since, `first` is then the
\* outcome of that previous call
Record(op, arg, outcome) ==
    LET again == result.op = op /\ result.arg = arg /\ ~changed
    IN [op |-> op, arg |-> arg, outcome |-> outcome, again |-> again,
        first |-> IF again THEN result.outcome ELSE outcome]

\* the call keeps the identifier it resolved as the instance's default
CallGetWorkspaceTotalSizeKeepsTarget(arg) ==
    /\ result' = Record("get_workspace_total_size", arg,
                        GetWorkspaceTotalSize(workspace_id, arg, FABRIC_AVAILABLE, list_items))
    /\ changed' = FALSE
    /\ workspace_id' = Or(arg, workspace_id)
    /\ UNCHANGED <<FABRIC_AVAILABLE, tenant_id, list_workspaces, list_items>>

\* a caller invokes get_workspace_total_size(arg)
CallGetWorkspaceTotalSize(arg) ==
    /\ result' = Record("get_workspace_total_size", arg,
                        GetWorkspaceTotalSize(workspace_id, arg, FABRIC_AVAILABLE, list_items))
    /\ changed' = FALSE
    /\ UNCHANGED <<FABRIC_AVAILABLE, workspace_id, tenant_id, list_workspaces, list_items>>

\* a caller invokes get_tenant_total_size(arg)
CallGetTenantTotalSize(arg) ==
    /\ result' = Record("get_tenant_total_size", arg,
                        GetTenantTotalSize(workspace_id, tenant_id, arg, FABRIC_AVAILABLE,
                                           list_workspaces, list_items))
    /\ changed' = FALSE
    /\ UNCHANGED <<FABRIC_AVAILABLE, workspace_id, tenant_id, list_workspaces, list_items>>

\* the directory starts failing on list_workspaces (network, authentication)
ListWorkspacesFails ==
    /\ FABRIC_AVAILABLE
    /\ list_workspaces # Raises
    /\ list_workspaces' = Raises
    /\ changed' = TRUE
    /\ UNCHANGED <<FABRIC_AVAILABLE, workspace_id, tenant_id, list_items, result>>

\* the directory starts failing on list_items of one workspace
ListItemsFails(id) ==
    /\ FABRIC_AVAILABLE
    /\ list_items[id] # Raises
    /\ list_items' = [list_items EXCEPT ![id] = Raises]
    /\ changed' = TRUE
    /\ UNCHANGED <<FABRIC_AVAILABLE, workspace_id, tenant_id, list_workspaces, result>>

Next ==
    \/ \E arg \in WorkspaceArgs : CallGetWorkspaceTotalSize(arg)
    \/ \E arg \in TenantArgs : CallGetTenantTotalSize(arg)
    \/ ListWorkspacesFails
    \/ \E id \in WorkspaceIds : ListItemsFails(id)

Spec == Init /\ [][Next]_vars

\* one workspace whose items frame is drawn from the richer ItemFrames
InitItems ==
    /\ FABRIC_AVAILABLE = TRUE
    /\ workspace_id = "workspace-1"
    /\ tenant_id \in ConfiguredTenantIds
    /\ list_workspaces = [columns |-> {"Id"}, rows |-> <<[Id |-> "workspace-1"]>>]
    /\ \E df \in ItemFrames :
           list_items = [w \in WorkspaceIds |-> IF w = "workspace-1" THEN df ELSE Raises]
    /\ result = NoCall
    /\ changed = FALSE

SpecItems == InitItems /\ [][Next]_vars

----------------------------------------------------------------------------
(* Properties of the calculators.                                          *)

IsWorkspaceCall == result.op = "get_workspace_total_size"

IsTenantCall == result.op = "get_tenant_total_size"

\* the recorded call saw the directory as it is now
Fresh == ~changed

\* the workspace identifier the recorded workspace call resolved
Target == Or(result.arg, workspace_id)

\* C1: every calculator call ends in an integer result or an InvalidInput
\* (ValueError); no other error kind reaches the caller.
C1_OnlyIntOrInvalidInput ==
    (IsWorkspaceCall \/ IsTenantCall) => result.outcome.kind \in {"int", "ValueError"}

\* C2: for a non-empty workspace identifier, when the directory is present but
\* list_items fails, get_workspace_total_size returns the value it returns
\* with no directory at all, and raises nothing.
C2_ListItemsFailureAsAbsent ==
    (IsWorkspaceCall /\ Fresh /\ Truthy(Target) /\ FABRIC_AVAILABLE /\ list_items[Target] = Raises)
        => /\ result.outcome.kind = "int"
           /\ result.outcome.value =
                  GetWorkspaceTotalSize(workspace_id, result.arg, FALSE, list_items).value

C2_Witness ==
    /\ IsWorkspaceCall /\ Fresh /\ FABRIC_AVAILABLE
    /\ result.arg = "workspace-2" /\ list_items["workspace-2"] = Raises
    /\ list_items["workspace-1"] # Raises
    /\ result.outcome.kind = "int"

\* C3 as stated: with no directory, get_workspace_total_size of a non-empty
\* identifier returns 88,162,816.
C3_PlaceholderIs88162816 ==
    (IsWorkspaceCall /\ Truthy(Target) /\ ~FABRIC_AVAILABLE)
        => result.outcome.kind = "int" /\ result.outcome.value = 88162816

\* C3 amended: with no directory, get_workspace_total_size of a non-empty
\* identifier returns 89,231,360 = 50 MiB + 25 MiB + 10 MiB + 100 KiB.
C3_PlaceholderIs89231360 ==
    (IsWorkspaceCall /\ Truthy(Target) /\ ~FABRIC_AVAILABLE)
        => /\ result.outcome.kind = "int"
           /\ result.outcome.value = 89231360
           /\ result.outcome.value = (50 + 25 + 10) * 1024 * 1024 + 100 * 1024

C3_Witness ==
    /\ IsWorkspaceCall /\ ~FABRIC_AVAILABLE /\ result.arg = "workspace-2"
    /\ result.outcome.kind = "int" /\ result.outcome.value = 89231360

\* C4 as stated: with no directory, get_tenant_total_size of a non-empty tenant
\* identifier returns 176,325,632.
C4_TenantPlaceholderIs176325632 ==
    (IsTenantCall /\ Truthy(Or(result.arg, tenant_id)) /\ ~FABRIC_AVAILABLE)
        => result.outcome.kind = "int" /\ result.outcome.value = 176325632

\* C4 amended: with no directory, get_tenant_total_size of a non-empty tenant
\* identifier returns 178,462,720, twice the placeholder sum of one workspace.
C4_TenantPlaceholderIs178462720 ==
    (IsTenantCall /\ Truthy(Or(result.arg, tenant_id)) /\ ~FABRIC_AVAILABLE)
        => /\ result.outcome.kind = "int"
           /\ result.outcome.value = 178462720
           /\ result.outcome.value = 2 * 89231360

C4_Witness ==
    /\ IsTenantCall /\ ~FABRIC_AVAILABLE /\ result.arg = "tenant-2"
    /\ result.outcome.kind = "int" /\ result.outcome.value = 178462720

\* C5: get_workspace_total_size with no argument on an instance without a
\* default workspace identifier raises ValueError, with or without a directory,
\* and returns no size (the directory is not asked either).
C5_NoWorkspaceIdRaises ==
    (IsWorkspaceCall /\ result.arg = None /\ workspace_id = None)
        => result.outcome = ValueError(<<>>)

C5_Witness ==
    /\ IsWorkspaceCall /\ result.arg = None /\ workspace_id = None
    /\ FABRIC_AVAILABLE /\ list_items["workspace-1"] # Raises
    /\ result.outcome.kind = "ValueError"

\* C6: get_tenant_total_size with no argument on an instance without a default
\* tenant identifier raises ValueError before any workspace is listed or sized.
C6_NoTenantIdRaisesFirst ==
    (IsTenantCall /\ result.arg = None /\ tenant_id = None)
        => result.outcome.kind = "ValueError" /\ result.outcome.calls = <<>>

C6_Witness ==
    /\ IsTenantCall /\ result.arg = None /\ tenant_id = None
    /\ FABRIC_AVAILABLE /\ list_workspaces # Raises
    /\ result.outcome.kind = "ValueError"

\* the recorded call repeats the call before it and has its outcome
RepeatedCallAgrees ==
    ((IsWorkspaceCall \/ IsTenantCall) /\ result.again) => result.outcome = result.first

\* a step in which the directory does not fail is a calculator call
CallLeavesInputsAlone ==
    ~changed' => UNCHANGED <<FABRIC_AVAILABLE, workspace_id, tenant_id, list_workspaces, list_items>>

\* C7: a calculator call repeated with the same argument, on the same instance
\* and with the directory unchanged in between, has the outcome of the call
\* before it; and a calculator call changes nothing a later call reads (the
\* configuration, the availability flag, what the directory returns).
C7_Idempotent == []RepeatedCallAgrees /\ [][CallLeavesInputsAlone]_vars

C7_Witness ==
    /\ IsTenantCall /\ result.again /\ FABRIC_AVAILABLE
    /\ list_workspaces # Raises /\ Len(list_workspaces.rows) = 2
    /\ result.outcome.kind = "int" /\ result.outcome.value > 0

\* the frame list_items returns for the workspace of the recorded call
ItemsFrame == list_items[Target]

\* the recorded workspace call got a non-empty frame without a size column
EstimatedCall ==
    /\ IsWorkspaceCall /\ Fresh /\ Truthy(Target) /\ FABRIC_AVAILABLE
    /\ ItemsFrame # Raises
    /\ ~Empty(ItemsFrame)
    /\ FirstColumn(size_columns, ItemsFrame.columns) = None

\* the type tag of an item: null when the frame has no "Type" column
TypeTag(df, i) == IF "Type" \in df.columns THEN df.rows[i].Type ELSE None

\* the per-type size of the lookup table, the default for every other tag
PerTypeSize(tag) ==
    IF tag \in DOMAIN size_estimates THEN size_estimates[tag] ELSE 1024 * 1024

\* the type tags of the frame's items, in order
TypeTags(df) == [i \in 1..Len(df.rows) |-> TypeTag(df, i)]

C9_FlatAverage ==
    (EstimatedCall /\ \A i \in 1..Len(ItemsFrame.rows) : TypeTag(ItemsFrame, i) = None)
        => /\ result.outcome.kind = "int"
           /\ result.outcome.value = Len(ItemsFrame.rows) * 20971520

\* the recorded workspace call got an empty frame from list_items
EmptyListCall ==
    /\ IsWorkspaceCall /\ Fresh /\ Truthy(Target) /\ FABRIC_AVAILABLE
    /\ ItemsFrame # Raises
    /\ Empty(ItemsFrame)

\* C10 as stated: when list_items succeeds with an empty item list,
\* get_workspace_total_size returns the placeholder sum, the value it returns
\* with no directory.
C10_EmptyListIsPlaceholder ==
    EmptyListCall
        => /\ result.outcome.kind = "int"
           /\ result.outcome.value =
                  GetWorkspaceTotalSize(workspace_id, result.arg, FALSE, list_items).value

\* C10 amended: when list_items succeeds with an empty item list,
\* get_workspace_total_size returns 0 and uses no placeholder.
C10_EmptyListIsZero ==
    EmptyListCall
        => /\ result.outcome.kind = "int"
           /\ result.outcome.value = 0
           /\ result.outcome.calls = <<CallListItems(Target)>>

C10_Witness ==
    /\ EmptyListCall /\ result.arg = "workspace-2"
    /\ result.outcome.kind = "int" /\ result.outcome.value = 0

\* the names size_columns lists
SizeColumnNames == {size_columns[i] : i \in 1..Len(size_columns)}

\* the recorded workspace call got a non-empty frame with a byte-size field
SizedCall ==
    /\ IsWorkspaceCall /\ Fresh /\ Truthy(Target) /\ FABRIC_AVAILABLE
    /\ ItemsFrame # Raises
    /\ ~Empty(ItemsFrame)
    /\ ItemsFrame.columns \cap SizeColumnNames # {}

\* the byte-size field of the frame (the frames drawn hold at most one)
SizeField(df) == CHOOSE c \in df.columns \cap SizeColumnNames : TRUE

\* the byte size an item reports, a null value counted as zero
ReportedSize(df, i) == IF df.rows[i][SizeField(df)] = NaN THEN 0 ELSE df.rows[i][SizeField(df)]

\* C11: a non-empty item list with a discoverable byte-size field is sized at
\* the sum of that field over all items, every null value counted as zero; a
\* list whose sizes are all null gives 0, neither placeholder nor estimate.
C11_SumOfSizes ==
    SizedCall
        => /\ result.outcome.kind = "int"
           /\ result.outcome.value =
                  SumSeq([i \in 1..Len(ItemsFrame.rows) |-> ReportedSize(ItemsFrame, i)])
           /\ (\A i \in 1..Len(ItemsFrame.rows) : ItemsFrame.rows[i][SizeField(ItemsFrame)] = NaN)
                  => result.outcome.value = 0

C11_Witness ==
    /\ SizedCall
    /\ ItemsFrame.columns = {"Type", "Size"}
    /\ Len(ItemsFrame.rows) = 2
    /\ \A i \in 1..2 : ItemsFrame.rows[i].Size = NaN /\ ItemsFrame.rows[i].Type = "Report"
    /\ result.outcome.kind = "int" /\ result.outcome.value = 0

\* the recorded tenant call had a resolvable tenant identifier
ResolvedTenantCall == IsTenantCall /\ Fresh /\ Truthy(Or(result.arg, tenant_id))

\* the identifiers of the workspace list: the rows of list_workspaces (a missing
\* identifier read as ""), or the two placeholder workspaces when the directory
\* is absent or list_workspaces fails
WorkspaceList ==
    IF FABRIC_AVAILABLE /\ list_workspaces # Raises
    THEN [i \in 1..Len(list_workspaces.rows) |->
             IF "Id" \in list_workspaces.columns THEN list_workspaces.rows[i].Id ELSE ""]
    ELSE <<"workspace-1", "workspace-2">>

\* get_workspace_total_size applied to one identifier, on its own
SizedAlone(id) == GetWorkspaceTotalSize(workspace_id, id, FABRIC_AVAILABLE, list_items)

\* the orders in which a list of n workspaces can be visited
Orders(n) == {p \in [1..n -> 1..n] : \A i, j \in 1..n : p[i] = p[j] => i = j}

\* C12: get_tenant_total_size returns the sum, over the workspace list, of
\* get_workspace_total_size applied to each workspace's identifier, each
\* workspace falling back on its own; the total is the same for every order
\* in which the list is visited.
C12_TenantIsSumOfWorkspaces ==
    ResolvedTenantCall
        => /\ result.outcome.kind = "int"
           /\ result.outcome.value =
                  SumSeq([i \in 1..Len(WorkspaceList) |-> SizedAlone(WorkspaceList[i]).value])
           /\ \A p \in Orders(Len(WorkspaceList)) :
                  result.outcome.value =
                      TenantLoop([i \in 1..Len(WorkspaceList) |-> WorkspaceList[p[i]]], 0, <<>>,
                                 workspace_id, FABRIC_AVAILABLE, list_items).value

\* the tenant call of an instance configured with tenant identifier cfg, given
\* the argument arg, on the present directory and workspace configuration
TenantCallOf(cfg, arg) ==
    GetTenantTotalSize(workspace_id, cfg, arg, FABRIC_AVAILABLE, list_workspaces, list_items)

\* C13: the tenant identifier selects no data: a tenant call under any other
\* non-empty tenant identifier (as argument or as default), with the same
\* directory and workspace configuration, has the same outcome (the same total)
\* and the same trace (list_workspaces and list_items invoked with the same
\* arguments, in the same order).
C13_TenantIdSelectsNothing ==
    ResolvedTenantCall
        => \A cfg \in ConfiguredTenantIds \cup {"tenant-3"}, arg \in TenantArgs :
              Truthy(Or(arg, cfg))
                  => /\ TenantCallOf(cfg, arg).kind = result.outcome.kind
                     /\ TenantCallOf(cfg, arg).calls = result.outcome.calls
                     /\ result.outcome.kind = "int"
                            => TenantCallOf(cfg, arg).value = result.outcome.value

C13_Witness ==
    /\ ResolvedTenantCall /\ FABRIC_AVAILABLE
    /\ result.arg = None /\ tenant_id = "tenant-1"
    /\ list_workspaces # Raises /\ Len(list_workspaces.rows) = 2
    /\ list_workspaces.columns = {"Id"}
    /\ list_items["workspace-1"] # Raises /\ list_items["workspace-2"] = Raises
    /\ result.outcome.kind = "int" /\ result.outcome.value > 89231360
    /\ TenantCallOf(None, "tenant-2") = result.outcome

====
